---- MODULE Spec2Model ----
(***************************************************************************)
(* A model of the task-execution loop of LocalAgent (LocalAgent.ts) and of *)
(* the singleton session Execution (Execution.ts).                         *)
(*                                                                         *)
(* One step of the model is one stretch of code between two points where   *)
(* the JavaScript event loop can run another task: an awaited model call,  *)
(* an awaited tool handler, an awaited browser call, a timer.  The abort   *)
(* signal and the human-input responses come from other tasks, so they are *)
(* separate actions that interleave with the steps of the loop.            *)
(***************************************************************************)
EXTENDS Integers, Sequences, FiniteSets, TLC

\* ---------------------------------------------------------------- bounds

\* The iteration cap of the loop.  The program sets 30 (LocalAgent.ts:60);
\* the model runs a smaller cap, and every formula is stated in the name.
MAX_UNIFIED_ITERATIONS == 4

\* The absolute timeout of the human-input wait, counted in poll intervals
\* (the program: 600000 ms at 500 ms per poll, LocalAgent.ts:64-65).
HUMAN_INPUT_TIMEOUT == 1

\* The token limit handed to _buildExecutionHistoryContext, in the unit of
\* one rendered call record.
TokenLimit == 2

\* The longest history for which the summarization sub-call may still fail.
MaxKeptHistory == TokenLimit + 1

\* The token counts of the texts the summarizer returns (0: the empty string).
SummaryTexts == {0, 1}

\* The responses delivered to one human-input wait.
MaxDeliveries == 2

\* The calls of Execution.run() a behaviour may make on the singleton.
MaxRuns == 2

\* The messages the agents add to the conversation history.
MaxMessages == 2

\* The chunks one model stream delivers.
MaxChunks == 2

\* The calls of execute() a behaviour may make on one LocalAgent.
MaxExecutes == 2

\* The largest token count of a browser state string and the largest
\* browserStateTokensLimit, in tokens.
MaxStateTokens == 3

\* The largest length of a browser state string, in characters.
MaxStateLength == 4

\* The longest history handed to _buildExecutionHistoryContext on its own.
MaxHistory == 6

\* The largest token limit handed to _buildExecutionHistoryContext on its
\* own; the smallest is 0.
MaxTokenLimit == 3

\* The floor _summarizeExecutionHistory puts under its token limit, in the
\* unit of one rendered call record (the program: 100, LocalAgent.ts:593).
MinSummaryTokens == 2

\* The consecutive iterations whose history context is built on its own.
MaxContextCalls == 2

\* ------------------------------------------------------------- constants

MAX_RETRIES == 3

\* The entries the fallback of _buildExecutionHistoryContext renders.
FallbackEntries == 5

\* ----------------------------------------------------------------- state

VARIABLES
    mode,                   \* "dynamic" | "predefined": the loop execute() chose
    pc,                     \* where the run is
    iterations,             \* LocalAgent.iterations
    consecutiveNoToolCalls, \* LocalAgent.consecutiveNoToolCalls
    executionHistory,       \* LocalAgent.executionHistory
    toolCalls,              \* the tool calls of the model's last answer
    idx,                    \* index in toolCalls of the call being dispatched
    result,                 \* the UnifiedResult of the current iteration
    aborted,                \* executionContext.abortSignal.aborted
    humanInputRequestId,    \* executionContext: 0 is "no request"
    humanInputResponse,     \* executionContext: "none" | "done" | "abort"
    subscribed,             \* the response subscription of the wait is live
    elapsed,                \* poll intervals since the wait started
    thrown,                 \* what execute() throws: "none" | "AbortError" | "MaxIterations"
    published,              \* the kinds of message published so far
    errorMessages,          \* the number of messages of type error published
    errorsMetric,           \* whether the errors metric was incremented after the abort
    \* history variables of the run, read by the properties only
    appended,               \* records appended in the current iteration
    everyTurnCalls,         \* every answer of the model so far held a tool call
    doneOk,                 \* done has returned ok:true
    timedOut,               \* a wait has returned timeout
    abortedAt,              \* the pc at which the abort signal was set
    handlerAfterAbort,      \* a handler was started with the signal set
    firstDelivered,         \* the action of the first matching response
    lastDelivered,          \* the action of the latest matching response
    deliveries,             \* matching responses delivered to the wait
    waitReturned,           \* what the last wait returned
    \* the singleton Execution and the calls of its run()
    executions,             \* the calls of execute() made on the agent
    currentAbortController, \* Execution.currentAbortController: 0 is null
    controllers,            \* the AbortControllers created so far
    abortedControllers,     \* the controllers whose signal is aborted
    runPc,                  \* where each call of run() is
    runSignal,              \* the controller whose signal the call's
                            \* ExecutionContext holds: 0 is "no context yet"
    runOutcome,             \* how each call ended
    runController,          \* the controller each call created, 0 before
    lockedBy,               \* the call whose lockExecutionToTab holds, 0 unlocked
    conversation,           \* the messages the MessageManager holds
    pauseMessages,          \* the pause messages cancel() has published
    lastCall,               \* the entry point the last step belongs to
    \* _buildExecutionHistoryContext called on a history of its own
    tokenLimit,             \* the tokenLimit argument
    historyContext,         \* what the call returned
    ctxPc,                  \* where the call is
    historyBefore,          \* executionHistory when the call was made
    ctxCalls,               \* the calls made so far
    streamPc,               \* where _invokeLLMWithStreaming stands
    chunksSeen,             \* the chunks the stream has delivered
    streamToolCalls,        \* the tool calls the stream has carried, in order
    accumulatedChunk,       \* local accumulatedChunk
    accumulatedText,        \* local accumulatedText
    hasStartedThinking,     \* local hasStartedThinking
    currentMsgId,           \* local currentMsgId, 0 for null
    hasProhibitedContent,   \* local hasProhibitedContent
    lastPublish,            \* the last message published under currentMsgId
    publishCount,           \* the messages published by the call
    reminders,              \* the system reminders queued by the call
    llmResponse,            \* the AIMessage the call returned
    dispatchedCalls,        \* the calls handed to _processToolCalls
    messageHistory,         \* the messages the call gave to the model
    detectedBefore,         \* a tag was detected in the iteration before
    streamTurn,             \* "first": some iteration i, "next": iteration i+1
    bsPc,                   \* where a _getBrowserStateMessage call is
    includeBrowserState,    \* the includeBrowserState argument
    browserStateTokensLimit, \* the browserStateTokensLimit argument
    browserStateString,     \* local browserStateString
    fullState,              \* what getBrowserStateString(simplified) returned
    fullTokens,             \* the token count of that string
    reducedState,           \* what getBrowserStateString(simplified, true) returned
    reducedTokens,          \* the token count of that string
    hiddenRequests,         \* the calls getBrowserStateString(simplified, true)
    stateMessage            \* the HumanMessage the call returned

vars == << mode, pc, iterations, consecutiveNoToolCalls, executionHistory,
           toolCalls, idx, result, aborted, humanInputRequestId,
           humanInputResponse, subscribed, elapsed, thrown, published,
           errorMessages, errorsMetric, appended, everyTurnCalls,
           doneOk, timedOut, abortedAt, handlerAfterAbort,
           firstDelivered, lastDelivered, deliveries, waitReturned,
          executions,
          currentAbortController, controllers, abortedControllers,
          runPc, runSignal, runOutcome, runController, lockedBy, conversation,
          pauseMessages, lastCall,
          tokenLimit, historyContext, ctxPc, historyBefore, ctxCalls,
          streamPc, chunksSeen, streamToolCalls, accumulatedChunk,
          accumulatedText, hasStartedThinking, currentMsgId,
          hasProhibitedContent, lastPublish, publishCount, reminders,
          llmResponse, dispatchedCalls, messageHistory, detectedBefore,
          streamTurn,
          bsPc, includeBrowserState, browserStateTokensLimit,
          browserStateString, fullState, fullTokens, reducedState,
          reducedTokens, hiddenRequests, stateMessage >>

\* --------------------------------------------------------------- helpers

\* The tools _registerTools registers, as far as the loop tells them apart:
\* done and human_input by name, click for every other registered tool.
RegisteredTools == {"click", "done", "human_input"}

\* LocalAgent.GLOW_ENABLED_TOOLS, restricted to the tools of the model.
GLOW_ENABLED_TOOLS == {"click"}

\* A tool call of the model's answer: the tool's name and what the handler
\* will do when it is invoked ("ok": returns an ok:true result, "throw":
\* throws).
Call(n, b) == [name |-> n, behaviour |-> b]

\* The answers the model can give: no call, one call, several calls, with
\* unknown tools, throwing handlers, done and human_input in every position
\* the loop treats differently.
Batches ==
    { << >>,
      << Call("click", "ok") >>,
      << Call("bogus", "ok"), Call("click", "ok") >>,
      << Call("click", "throw"), Call("click", "ok") >>,
      << Call("done", "ok") >>,
      << Call("done", "ok"), Call("click", "ok") >>,
      << Call("done", "throw") >>,
      << Call("human_input", "ok") >>,
      << Call("human_input", "ok"), Call("done", "ok") >> }

\* What a handler that returns gives back: the human_input tool asks for
\* the wait, every tool reports ok.
ToolOutput(call) ==
    [ok |-> TRUE, error |-> "", requiresHumanInput |-> call.name = "human_input"]

\* DispatchResult with the catch block forgetting the failure: the result
\* of a throwing handler is recorded as that of a handler that returned.
DispatchResult_ThrowAsOk(call) ==
    IF call.name \notin RegisteredTools
    THEN [ok |-> FALSE, error |-> "Unknown tool", requiresHumanInput |-> FALSE]
    ELSE ToolOutput(call)

\* The result _processToolCalls records for one call: an unknown tool and a
\* throwing handler are turned into ok:false results with an error text.
DispatchResult(call) ==
    IF call.name \notin RegisteredTools
    THEN [ok |-> FALSE, error |-> "Unknown tool", requiresHumanInput |-> FALSE]
    ELSE IF call.behaviour = "throw"
    THEN [ok |-> FALSE, error |-> "Tool execution failed", requiresHumanInput |-> FALSE]
    ELSE ToolOutput(call)

\* The history entry pushed for one call.  summary = -1 stands for an
\* entry without a summary field.
CallEntry(it, call, res) ==
    [iteration |-> it, tool |-> call.name, ok |-> res.ok, error |-> res.error,
     summary |-> -1]

\* The entry that replaces the history after a summarization; s is the
\* token count of the summary text.
SummaryEntry(it, s) ==
    [iteration |-> it - 1, tool |-> "", ok |-> FALSE, error |-> "", summary |-> s]

\* The special outcomes _processToolCalls reads off one recorded result.
DoneFlag(call, res) == call.name = "done" /\ res.ok
HumanFlag(call, res) == call.name = "human_input" /\ res.ok /\ res.requiresHumanInput

\* BatchContinues with an early break once done has succeeded.
BatchContinues_BreakOnDone(flags, i, n) == i <= n /\ ~flags.doneToolCalled

\* The loop of _processToolCalls goes on to call i of n whatever the flags
\* are ("DON'T break early").
BatchContinues(flags, i, n) == i <= n

\* LoopCondition with an off-by-one cap.
LoopCondition_OffByOne(done, iters) == ~done /\ iters <= MAX_UNIFIED_ITERATIONS

\* The while condition of _executeDynamic and _executePredefined.
LoopCondition(done, iters) == ~done /\ iters < MAX_UNIFIED_ITERATIONS

\* The rendered token count of the history: one unit per call record, the
\* summary text's own count for a summary entry.
\* An entry with a non-empty summary is rendered as a summary block (a
\* header line and the text), every other entry as one call record.
EntryTokens(e) == IF e.summary > 0 THEN 1 + e.summary ELSE 1

RECURSIVE HistoryTokens(_)
HistoryTokens(h) ==
    IF h = << >> THEN 0 ELSE EntryTokens(Head(h)) + HistoryTokens(Tail(h))

\* The test of _buildExecutionHistoryContext that starts a summarization.
NeedsSummary(h, limit) == h # << >> /\ HistoryTokens(h) > limit

\* The rendering of one history entry: a summary block for an entry with
\* a non-empty summary, a call record for every other entry.
RenderEntry(e) ==
    IF e.summary > 0
    THEN [kind |-> "summary", iteration |-> e.iteration, tool |-> "",
          ok |-> FALSE, error |-> "", text |-> e.summary]
    ELSE [kind |-> "call", iteration |-> e.iteration, tool |-> e.tool,
          ok |-> e.ok, error |-> e.error, text |-> 0]

\* The rendering of a history: its entries' renderings in order.
RenderHistory(h) == [k \in 1..Len(h) |-> RenderEntry(h[k])]

\* LastEntries keeping the whole history.
LastEntries_All(h, n) == h

\* Array.slice(-n): the last n entries, all of them when there are fewer.
LastEntries(h, n) ==
    IF Len(h) <= n THEN h ELSE SubSeq(h, Len(h) - n + 1, Len(h))

\* The token limit _summarizeExecutionHistory hands to the summarizer.
SummaryBudget(limit) == IF limit < MinSummaryTokens THEN MinSummaryTokens ELSE limit

\* What _buildExecutionHistoryContext returns: the fixed text for an empty
\* history, the full rendering, the summary text, or the fallback
\* rendering.
NotBuilt == [kind |-> "none", entries |-> << >>, text |-> 0]
NoPreviousActions == [kind |-> "empty", entries |-> << >>, text |-> 0]
FullContext(h) == [kind |-> "full", entries |-> RenderHistory(h), text |-> 0]
SummaryContext(t) == [kind |-> "summary", entries |-> << >>, text |-> t]
FallbackContext(h) ==
    [kind |-> "fallback",
     entries |-> RenderHistory(LastEntries(h, FallbackEntries)), text |-> 0]

\* The histories the loop can hold at the top of iteration it: call
\* records of the earlier iterations in iteration order, after at most one
\* summary entry, which is first and covers the iterations before them.
CallRecords(it) ==
    { CallEntry(i, Call("click", "ok"), ToolOutput(Call("click", "ok"))) :
         i \in 1..(it - 1) }
SummaryRecords(it) == { SummaryEntry(i, t) : i \in 2..(it - 1), t \in {0, 1} }
NextEntries(it, h) ==
    IF h = << >> THEN CallRecords(it) \cup SummaryRecords(it)
    ELSE LET last == h[Len(h)]
         IN { e \in CallRecords(it) :
                 IF last.summary = -1 THEN last.iteration <= e.iteration
                 ELSE last.iteration < e.iteration }
RECURSIVE HistoriesOfLen(_, _)
HistoriesOfLen(it, n) ==
    IF n = 0 THEN { << >> }
    ELSE LET shorter == HistoriesOfLen(it, n - 1)
         IN UNION { { Append(h, e) : e \in NextEntries(it, h) } : h \in shorter }
Histories(it) == UNION { HistoriesOfLen(it, n) : n \in 0..MaxHistory }

\* PollOutcome with the timeout reached one check interval early.
PollOutcome_TimeoutEarly(sig, response, t) ==
    IF sig THEN "abort"
    ELSE IF response # "none" THEN response
    ELSE IF t >= HUMAN_INPUT_TIMEOUT THEN "timeout"
    ELSE "sleep"

\* PollOutcome with the stored response read before the abort signal.
PollOutcome_ResponseFirst(sig, response, t) ==
    IF response # "none" THEN response
    ELSE IF sig THEN "abort"
    ELSE IF t > HUMAN_INPUT_TIMEOUT THEN "timeout"
    ELSE "sleep"

\* One poll of _waitForHumanInput: what the loop body does with the abort
\* signal, the stored response and the elapsed time.
PollOutcome(sig, response, t) ==
    IF sig THEN "abort"
    ELSE IF response # "none" THEN response
    ELSE IF t > HUMAN_INPUT_TIMEOUT THEN "timeout"
    ELSE "sleep"

\* The test the loops apply to what the wait returned.
IsHumanAbort(humanResponse) == humanResponse = "abort"

\* ExecutionContext.setHumanInputResponse: the response is stored once,
\* a later one for the same request is ignored.
SetHumanInputResponse(stored, action) ==
    IF stored = "none" THEN action ELSE stored

\* OnHumanInputResponse writing the response into the context itself.
OnHumanInputResponse_Overwrite(stored, requestId, response) ==
    IF response.requestId = requestId THEN response.action ELSE stored

\* The subscription callback of _waitForHumanInput.
OnHumanInputResponse(stored, requestId, response) ==
    IF response.requestId = requestId
    THEN SetHumanInputResponse(stored, response.action)
    ELSE stored

\* The assignment that keeps the history it should empty.
ClearedHistory_Kept(h) == h

\* this.executionHistory = [], in _initialize and in _cleanup.
ClearedHistory(h) == << >>

NoFlags == [doneToolCalled |-> FALSE, requiresHumanInput |-> FALSE]

\* The calls of run().
Runs == 1..MaxRuns

\* Execution.isRunning().
isRunning(controller) == controller # 0

\* The tags _invokeLLMWithStreaming never shows to the user, an opening and
\* a closing one, as sequences of characters.
PROHIBITED_TAGS == { << "<", ">" >>, << "<", "/", ">" >> }

\* The string contents a chunk carries; the empty one stands for a chunk
\* without text, which the string test skips.
ChunkTexts ==
    { << >>, << "a" >>, << " " >>, << "<" >>, << ">" >>, << "/" >>,
      << "<", ">" >>, << "<", "/" >>, << "/", ">" >>, << "a", "<" >>,
      << ">", "a" >> }

\* The tool calls a chunk carries.
ChunkCalls == { << >>, << "click" >>, << "done" >> }

\* The chunks a stream may deliver.
Chunks == [content : ChunkTexts, tool_calls : ChunkCalls]

\* accumulatedChunk before the first chunk, and the AIMessage not returned.
NoChunk == [kind |-> "undefined", content |-> << >>, tool_calls |-> << >>]

\* No message published yet.
NoPublish == [kind |-> "none", text |-> << >>]

\* String.prototype.includes.
includes(text, tag) ==
    \E i \in 0..(Len(text) - Len(tag)) : SubSeq(text, i + 1, i + Len(tag)) = tag

\* The text searched for the tags at a chunk: the accumulated text.
Scanned_ChunkOnly(accumulated, content) == content

Scanned(accumulated, content) == accumulated

\* PROHIBITED_TAGS.find(tag => text.includes(tag)) found a tag.
DetectedTag(text) == \E tag \in PROHIBITED_TAGS : includes(text, tag)

\* accumulatedText.trim() is a non-empty string.
trim(text) == \E i \in 1..Len(text) : text[i] # " "

\* accumulatedChunk ? accumulatedChunk.concat(chunk) : chunk
concat_FirstCalls(acc, chunk) ==
    IF acc.kind = "undefined"
    THEN [kind |-> "chunk", content |-> chunk.content, tool_calls |-> chunk.tool_calls]
    ELSE [kind |-> "chunk", content |-> acc.content \o chunk.content,
          tool_calls |-> acc.tool_calls]

concat(acc, chunk) ==
    IF acc.kind = "undefined"
    THEN [kind |-> "chunk", content |-> chunk.content, tool_calls |-> chunk.tool_calls]
    ELSE [kind |-> "chunk", content |-> acc.content \o chunk.content,
          tool_calls |-> acc.tool_calls \o chunk.tool_calls]

\* ------------------------------------------------------------------ Init

\* A browser state string, as far as _getBrowserStateMessage tells strings
\* apart: which call returned it, its length, and whether the truncation
\* indicator ends it.  NoState is the null the local starts with.
NoState == [kind |-> "null", length |-> 0, truncated |-> FALSE]

\* The message of a call that has not returned.
NoStateMessage == [text |-> "none", state |-> NoState, image |-> FALSE]

Init ==
    /\ mode = "dynamic"
    /\ pc = "idle"
    /\ iterations = 0
    /\ consecutiveNoToolCalls = 0
    /\ executionHistory = << >>
    /\ toolCalls = << >>
    /\ idx = 1
    /\ result = NoFlags
    /\ aborted = FALSE
    /\ humanInputRequestId = 0
    /\ humanInputResponse = "none"
    /\ subscribed = FALSE
    /\ elapsed = 0
    /\ thrown = "none"
    /\ published = {}
    /\ errorMessages = 0
    /\ errorsMetric = FALSE
    /\ appended = 0
    /\ everyTurnCalls = TRUE
    /\ doneOk = FALSE
    /\ timedOut = FALSE
    /\ abortedAt = "none"
    /\ handlerAfterAbort = FALSE
    /\ firstDelivered = "none"
    /\ lastDelivered = "none"
    /\ deliveries = 0
    /\ waitReturned = "none"
    /\ executions = 0
    /\ currentAbortController = 0
    /\ controllers = 0
    /\ abortedControllers = {}
    /\ runPc = [r \in Runs |-> "idle"]
    /\ runSignal = [r \in Runs |-> 0]
    /\ runOutcome = [r \in Runs |-> "none"]
    /\ runController = [r \in Runs |-> 0]
    /\ lockedBy = 0
    /\ conversation = 0
    /\ pauseMessages = 0
    /\ lastCall = "none"
    /\ tokenLimit = 0
    /\ historyContext = NotBuilt
    /\ ctxPc = "idle"
    /\ historyBefore = << >>
    /\ ctxCalls = 0
    /\ streamPc = "idle"
    /\ chunksSeen = 0
    /\ streamToolCalls = << >>
    /\ accumulatedChunk = NoChunk
    /\ accumulatedText = << >>
    /\ hasStartedThinking = FALSE
    /\ currentMsgId = 0
    /\ hasProhibitedContent = FALSE
    /\ lastPublish = NoPublish
    /\ publishCount = 0
    /\ reminders = 0
    /\ llmResponse = NoChunk
    /\ dispatchedCalls = << >>
    /\ messageHistory = {}
    /\ detectedBefore = FALSE
    /\ streamTurn = "first"
    /\ bsPc = "idle"
    /\ includeBrowserState = FALSE
    /\ browserStateTokensLimit = 0
    /\ browserStateString = NoState
    /\ fullState = NoState
    /\ fullTokens = 0
    /\ reducedState = NoState
    /\ reducedTokens = 0
    /\ hiddenRequests = 0
    /\ stateMessage = NoStateMessage

\* The variable groups the actions leave alone.
loopVars == << iterations, consecutiveNoToolCalls, executionHistory, toolCalls,
               idx, result, appended, everyTurnCalls, doneOk >>
gateVars == << humanInputRequestId, humanInputResponse, subscribed, elapsed,
               firstDelivered, lastDelivered, deliveries, waitReturned,
               timedOut >>
abortVars == << aborted, abortedAt >>
outVars == << thrown, published, errorMessages >>
execVars == << currentAbortController, controllers, abortedControllers,
               runPc, runSignal, runOutcome, runController, lockedBy,
               conversation, pauseMessages, lastCall >>
agentVars == << mode, pc, errorsMetric, handlerAfterAbort, loopVars, gateVars,
                abortVars, outVars, executions >>
streamVars == << streamPc, chunksSeen, streamToolCalls, accumulatedChunk,
                 accumulatedText, hasStartedThinking, currentMsgId,
                 hasProhibitedContent, lastPublish, publishCount, reminders,
                 llmResponse, dispatchedCalls, messageHistory, detectedBefore,
                 streamTurn >>

historyVars == << tokenLimit, historyContext, ctxPc, historyBefore, ctxCalls >>
stateVars == << bsPc, includeBrowserState, browserStateTokensLimit,
                browserStateString, fullState, fullTokens, reducedState,
                reducedTokens, hiddenRequests, stateMessage >>
ctxVars == << historyVars, stateVars >>

\* --------------------------------------------------------------- actions

\* execute(): _initialize resets the counters and the history, then the
\* loop of the chosen mode publishes its start message.
Execute ==
    /\ UNCHANGED execVars
    /\ UNCHANGED streamVars
    /\ UNCHANGED ctxVars
    /\ pc = "idle"
    /\ executions' = executions + 1
    /\ \E m \in {"dynamic", "predefined"} : mode' = m
    /\ iterations' = 0
    /\ consecutiveNoToolCalls' = 0
    /\ executionHistory' = ClearedHistory(executionHistory)
    /\ published' = published \cup {"start"}
    /\ pc' = "loop"
    /\ UNCHANGED << toolCalls, idx, result, appended, everyTurnCalls, doneOk,
                    thrown, errorMessages, errorsMetric, handlerAfterAbort >>
    /\ UNCHANGED gateVars
    /\ UNCHANGED abortVars

\* The top of the while loop: the loop condition, checkIfAborted,
\* iterations++, and the start of _run*Agent up to its first await (the
\* summarization sub-call or the browser state and the model call).
LoopTop ==
    /\ UNCHANGED execVars
    /\ UNCHANGED streamVars
    /\ UNCHANGED ctxVars
    /\ UNCHANGED executions
    /\ pc = "loop"
    /\ IF ~LoopCondition(FALSE, iterations)
       THEN \* the iteration-limit check after the loop
            /\ published' = published \cup {"iterationLimit"}
            /\ errorMessages' = errorMessages + 1
            /\ thrown' = "MaxIterations"
            /\ pc' = "unwind"
            /\ UNCHANGED << iterations, appended, toolCalls, idx, result >>
       ELSE IF aborted
       THEN \* checkIfAborted
            /\ thrown' = "AbortError"
            /\ pc' = "unwind"
            /\ UNCHANGED << iterations, appended, toolCalls, idx, result, published,
                            errorMessages >>
       ELSE /\ iterations' = iterations + 1
            /\ appended' = 0
            /\ toolCalls' = << >>
            /\ idx' = 1
            /\ result' = NoFlags
            /\ pc' = IF NeedsSummary(executionHistory, TokenLimit)
                     THEN "summarize" ELSE "llm"
            /\ UNCHANGED << thrown, published, errorMessages >>
    /\ UNCHANGED << mode, consecutiveNoToolCalls, executionHistory,
                    everyTurnCalls, doneOk, errorsMetric, handlerAfterAbort >>
    /\ UNCHANGED gateVars
    /\ UNCHANGED abortVars

\* _summarizeExecutionHistory returned a text of s tokens: the history is
\* replaced by one summary entry.
SummarizeOk ==
    /\ UNCHANGED execVars
    /\ UNCHANGED streamVars
    /\ UNCHANGED ctxVars
    /\ UNCHANGED executions
    /\ pc = "summarize"
    /\ \E s \in SummaryTexts :
          executionHistory' = << SummaryEntry(iterations, s) >>
    /\ pc' = "llm"
    /\ UNCHANGED << mode, iterations, consecutiveNoToolCalls, toolCalls, idx,
                    result, appended, everyTurnCalls, doneOk, errorsMetric,
                    handlerAfterAbort >>
    /\ UNCHANGED gateVars
    /\ UNCHANGED abortVars
    /\ UNCHANGED outVars

\* _summarizeExecutionHistory threw: the fallback renders the last entries
\* and leaves the history as it is.
SummarizeFail ==
    /\ UNCHANGED execVars
    /\ UNCHANGED streamVars
    /\ UNCHANGED ctxVars
    /\ UNCHANGED executions
    /\ pc = "summarize"
    /\ Len(executionHistory) <= MaxKeptHistory
    /\ pc' = "llm"
    /\ UNCHANGED << mode, errorsMetric, handlerAfterAbort >>
    /\ UNCHANGED loopVars
    /\ UNCHANGED gateVars
    /\ UNCHANGED abortVars
    /\ UNCHANGED outVars

\* The catch of _run*Agent: the errors metric is incremented and the
\* iteration yields "no flags".
Swallow ==
    /\ errorsMetric' = (errorsMetric \/ aborted)
    /\ result' = NoFlags
    /\ pc' = "post"

\* _invokeLLMWithStreaming returned the model's answer.  No call: the
\* no-call counter goes up, and the error thrown at MAX_RETRIES is caught
\* by the catch of _run*Agent.  Calls: the counter is reset and
\* _processToolCalls starts.
LlmReturn ==
    /\ UNCHANGED execVars
    /\ UNCHANGED streamVars
    /\ UNCHANGED ctxVars
    /\ UNCHANGED executions
    /\ pc = "llm"
    /\ ~aborted
    /\ \E batch \in Batches :
          /\ toolCalls' = batch
          /\ IF batch = << >>
             THEN /\ consecutiveNoToolCalls' = consecutiveNoToolCalls + 1
                  /\ everyTurnCalls' = FALSE
                  /\ IF consecutiveNoToolCalls + 1 >= MAX_RETRIES
                     THEN Swallow
                     ELSE /\ result' = NoFlags
                          /\ pc' = "post"
                          /\ UNCHANGED errorsMetric
             ELSE /\ consecutiveNoToolCalls' = 0
                  /\ UNCHANGED everyTurnCalls
                  /\ result' = NoFlags
                  /\ pc' = "tools"
                  /\ UNCHANGED errorsMetric
    /\ idx' = 1
    /\ UNCHANGED << mode, iterations, executionHistory, appended, doneOk,
                    handlerAfterAbort >>
    /\ UNCHANGED gateVars
    /\ UNCHANGED abortVars
    /\ UNCHANGED outVars

\* The model call threw (a provider error, or the abort signal during the
\* stream): caught by the catch of _run*Agent.
LlmThrow ==
    /\ UNCHANGED execVars
    /\ UNCHANGED streamVars
    /\ UNCHANGED ctxVars
    /\ UNCHANGED executions
    /\ pc = "llm"
    /\ everyTurnCalls' = FALSE
    /\ Swallow
    /\ UNCHANGED << mode, iterations, consecutiveNoToolCalls, executionHistory,
                    toolCalls, idx, appended, doneOk, handlerAfterAbort >>
    /\ UNCHANGED gateVars
    /\ UNCHANGED abortVars
    /\ UNCHANGED outVars

\* Record putting the new entry in front of the history.
Record_Prepend(call, res) ==
    /\ executionHistory' = << CallEntry(iterations, call, res) >> \o executionHistory
    /\ appended' = appended + 1
    /\ result' = [doneToolCalled |-> result.doneToolCalled \/ DoneFlag(call, res),
                  requiresHumanInput |-> result.requiresHumanInput \/ HumanFlag(call, res)]
    /\ doneOk' = (doneOk \/ DoneFlag(call, res))
    /\ idx' = idx + 1

\* The push of one result onto the history and the flags read off it.
Record(call, res) ==
    /\ executionHistory' = Append(executionHistory, CallEntry(iterations, call, res))
    /\ appended' = appended + 1
    /\ result' = [doneToolCalled |-> result.doneToolCalled \/ DoneFlag(call, res),
                  requiresHumanInput |-> result.requiresHumanInput \/ HumanFlag(call, res)]
    /\ doneOk' = (doneOk \/ DoneFlag(call, res))
    /\ idx' = idx + 1

\* One turn of the for loop of _processToolCalls up to its first await:
\* the end of the batch, checkIfAborted, the unknown tool, or the start of
\* the glow animation or of the handler.
BeginCall ==
    /\ UNCHANGED execVars
    /\ UNCHANGED streamVars
    /\ UNCHANGED ctxVars
    /\ UNCHANGED executions
    /\ pc = "tools"
    /\ IF ~BatchContinues(result, idx, Len(toolCalls))
       THEN /\ pc' = "post"
            /\ UNCHANGED << executionHistory, appended, result, doneOk, idx,
                            errorsMetric, handlerAfterAbort >>
       ELSE IF aborted
       THEN /\ Swallow
            /\ UNCHANGED << executionHistory, appended, doneOk, idx,
                            handlerAfterAbort >>
       ELSE IF toolCalls[idx].name \in GLOW_ENABLED_TOOLS
       THEN /\ pc' = "glow"
            /\ UNCHANGED << executionHistory, appended, result, doneOk, idx,
                            errorsMetric, handlerAfterAbort >>
       ELSE IF toolCalls[idx].name \notin RegisteredTools
       THEN /\ Record(toolCalls[idx], DispatchResult(toolCalls[idx]))
            /\ pc' = "tools"
            /\ UNCHANGED << errorsMetric, handlerAfterAbort >>
       ELSE /\ pc' = "handler"
            /\ handlerAfterAbort' = (handlerAfterAbort \/ aborted)
            /\ UNCHANGED << executionHistory, appended, result, doneOk, idx,
                            errorsMetric >>
    /\ UNCHANGED << mode, iterations, consecutiveNoToolCalls, toolCalls, everyTurnCalls >>
    /\ UNCHANGED gateVars
    /\ UNCHANGED abortVars
    /\ UNCHANGED outVars

\* _maybeStartGlowAnimation returned: the handler is invoked, without a
\* second look at the abort signal.
GlowDone ==
    /\ UNCHANGED execVars
    /\ UNCHANGED streamVars
    /\ UNCHANGED ctxVars
    /\ UNCHANGED executions
    /\ pc = "glow"
    /\ pc' = "handler"
    /\ handlerAfterAbort' = (handlerAfterAbort \/ aborted)
    /\ UNCHANGED << mode, errorsMetric >>
    /\ UNCHANGED loopVars
    /\ UNCHANGED gateVars
    /\ UNCHANGED abortVars
    /\ UNCHANGED outVars

\* The handler returned or threw: the result is recorded.  The
\* human_input tool has stored a fresh request id in the context.
HandlerDone ==
    /\ UNCHANGED execVars
    /\ UNCHANGED streamVars
    /\ UNCHANGED ctxVars
    /\ UNCHANGED executions
    /\ pc = "handler"
    /\ LET call == toolCalls[idx]
           res == DispatchResult(call)
       IN /\ Record(call, res)
          /\ errorsMetric' = (errorsMetric \/ (aborted /\ ~res.ok))
          /\ IF HumanFlag(call, res)
             THEN /\ humanInputRequestId' = iterations
                  /\ humanInputResponse' = "none"
                  /\ firstDelivered' = "none"
                  /\ lastDelivered' = "none"
                  /\ deliveries' = 0
             ELSE UNCHANGED << humanInputRequestId,
                               humanInputResponse, firstDelivered, lastDelivered, deliveries >>
    /\ pc' = "tools"
    /\ UNCHANGED << mode, iterations, consecutiveNoToolCalls, toolCalls, everyTurnCalls,
                    handlerAfterAbort, subscribed, elapsed, waitReturned,
                    timedOut >>
    /\ UNCHANGED abortVars
    /\ UNCHANGED outVars

\* What the loop body does with the flags _run*Agent returned.  The
\* dynamic loop looks at requiresHumanInput first, the predefined loop at
\* doneToolCalled first.
NextAfterAgent(m, res) ==
    IF m = "dynamic"
    THEN IF res.requiresHumanInput THEN "wait"
         ELSE IF res.doneToolCalled THEN "complete" ELSE "loop"
    ELSE IF res.doneToolCalled THEN "complete"
         ELSE IF res.requiresHumanInput THEN "wait" ELSE "loop"

\* What the loop body does with what the wait returned: the dynamic loop
\* still has its doneToolCalled check ahead, the predefined loop is at the
\* end of its body.
NextAfterWait(m, res, humanResponse) ==
    IF IsHumanAbort(humanResponse) THEN "abort"
    ELSE IF m = "dynamic" /\ res.doneToolCalled THEN "complete" ELSE "loop"

\* How the loop body of mode m ends an iteration whose _run*Agent returned
\* the flags res, the wait, if the body makes one, returning humanResponse.
IterationOutcome(m, res, humanResponse) ==
    IF NextAfterAgent(m, res) = "wait"
    THEN NextAfterWait(m, res, humanResponse)
    ELSE NextAfterAgent(m, res)

\* The end of the loop body: the locals of the iteration go out of scope.
EndIteration ==
    /\ toolCalls' = << >>
    /\ idx' = 1
    /\ result' = NoFlags
    /\ appended' = 0

\* done = true, the completion message, break.
Complete ==
    /\ published' = published \cup {"completed"}
    /\ pc' = "unwind"
    /\ UNCHANGED << thrown, errorMessages >>

\* The loop body after _run*Agent returned.
PostAgent ==
    /\ UNCHANGED execVars
    /\ UNCHANGED streamVars
    /\ UNCHANGED ctxVars
    /\ UNCHANGED executions
    /\ pc = "post"
    /\ LET n == NextAfterAgent(mode, result)
       IN IF n = "complete"
          THEN /\ Complete
               /\ UNCHANGED << toolCalls, idx, result, appended >>
          ELSE IF n = "wait"
          THEN /\ pc' = "wait"
               /\ UNCHANGED outVars
               /\ UNCHANGED << toolCalls, idx, result, appended >>
          ELSE /\ pc' = "loop"
               /\ EndIteration
               /\ UNCHANGED outVars
    /\ UNCHANGED << mode, iterations, consecutiveNoToolCalls, executionHistory,
                    everyTurnCalls, doneOk, errorsMetric, handlerAfterAbort >>
    /\ UNCHANGED gateVars
    /\ UNCHANGED abortVars

\* The start of _waitForHumanInput: without a request id it returns abort,
\* otherwise it subscribes to the responses and starts polling.
EnterWait ==
    /\ UNCHANGED execVars
    /\ UNCHANGED streamVars
    /\ UNCHANGED ctxVars
    /\ UNCHANGED executions
    /\ pc = "wait"
    /\ IF humanInputRequestId = 0
       THEN /\ waitReturned' = "abort"
            /\ pc' = "waited"
            /\ UNCHANGED << subscribed, elapsed >>
       ELSE /\ subscribed' = TRUE
            /\ elapsed' = 0
            /\ pc' = "poll"
            /\ UNCHANGED waitReturned
    /\ UNCHANGED << mode, errorsMetric, handlerAfterAbort, humanInputRequestId,
                    humanInputResponse, firstDelivered, lastDelivered,
                    deliveries, timedOut >>
    /\ UNCHANGED loopVars
    /\ UNCHANGED abortVars
    /\ UNCHANGED outVars

\* One turn of the poll loop: return (the finally block unsubscribes) or
\* start the timer of the next poll.
Poll ==
    /\ UNCHANGED execVars
    /\ UNCHANGED streamVars
    /\ UNCHANGED ctxVars
    /\ UNCHANGED executions
    /\ pc = "poll"
    /\ LET o == PollOutcome(aborted, humanInputResponse, elapsed)
       IN IF o = "sleep"
          THEN /\ pc' = "sleep"
               /\ UNCHANGED << waitReturned, subscribed, timedOut, published,
                               errorMessages >>
          ELSE /\ waitReturned' = o
               /\ subscribed' = FALSE
               /\ pc' = "waited"
               /\ IF o = "timeout"
                  THEN /\ published' = published \cup {"timeout"}
                       /\ errorMessages' = errorMessages + 1
                       /\ timedOut' = TRUE
                  ELSE UNCHANGED << published, errorMessages, timedOut >>
    /\ UNCHANGED << mode, errorsMetric, handlerAfterAbort, humanInputRequestId,
                    humanInputResponse, firstDelivered, lastDelivered,
                    deliveries, elapsed, thrown >>
    /\ UNCHANGED loopVars
    /\ UNCHANGED abortVars

\* The timer of the poll loop fired: one check interval has passed.
Tick ==
    /\ UNCHANGED execVars
    /\ UNCHANGED streamVars
    /\ UNCHANGED ctxVars
    /\ UNCHANGED executions
    /\ pc = "sleep"
    /\ elapsed' = elapsed + 1
    /\ pc' = "poll"
    /\ UNCHANGED << mode, errorsMetric, handlerAfterAbort, humanInputRequestId,
                    humanInputResponse, firstDelivered, lastDelivered,
                    deliveries, subscribed, waitReturned, timedOut >>
    /\ UNCHANGED loopVars
    /\ UNCHANGED abortVars
    /\ UNCHANGED outVars

\* A human-input-response event reaches the subscription of the wait.  It
\* carries the id of the pending request or another id; deliveries counts
\* the responses that carry the id of the pending request.
DeliverResponse ==
    /\ UNCHANGED execVars
    /\ UNCHANGED streamVars
    /\ UNCHANGED ctxVars
    /\ UNCHANGED executions
    /\ pc = "sleep"
    /\ subscribed
    /\ deliveries < MaxDeliveries
    /\ \E id \in {humanInputRequestId, humanInputRequestId - 1},
          action \in {"done", "abort"} :
          LET response == [requestId |-> id, action |-> action]
          IN /\ humanInputResponse' =
                    OnHumanInputResponse(humanInputResponse, humanInputRequestId, response)
             /\ firstDelivered' =
                    IF id = humanInputRequestId /\ firstDelivered = "none"
                    THEN action ELSE firstDelivered
             /\ lastDelivered' = IF id = humanInputRequestId THEN action ELSE lastDelivered
             /\ deliveries' = IF id = humanInputRequestId
                              THEN deliveries + 1 ELSE deliveries
    /\ UNCHANGED << mode, pc, errorsMetric, handlerAfterAbort, humanInputRequestId,
                    subscribed, elapsed, waitReturned, timedOut >>
    /\ UNCHANGED loopVars
    /\ UNCHANGED abortVars
    /\ UNCHANGED outVars

\* The loop body after _waitForHumanInput returned.
AfterWait ==
    /\ UNCHANGED execVars
    /\ UNCHANGED streamVars
    /\ UNCHANGED ctxVars
    /\ UNCHANGED executions
    /\ pc = "waited"
    /\ LET n == NextAfterWait(mode, result, waitReturned)
       IN IF n = "abort"
          THEN /\ published' = published \cup {"abortedByHuman"}
               /\ thrown' = "AbortError"
               /\ pc' = "unwind"
               /\ UNCHANGED << errorMessages, humanInputRequestId, humanInputResponse,
                               firstDelivered, lastDelivered, deliveries, waitReturned, elapsed,
                               toolCalls, idx, result, appended >>
          ELSE \* the continuing message, clearHumanInputState()
               /\ humanInputRequestId' = 0
               /\ humanInputResponse' = "none"
               /\ firstDelivered' = "none"
               /\ lastDelivered' = "none"
               /\ deliveries' = 0
               /\ waitReturned' = "none"
               /\ elapsed' = 0
               /\ IF n = "complete"
                  THEN /\ published' = published \cup {"continuing", "completed"}
                       /\ pc' = "unwind"
                       /\ UNCHANGED << toolCalls, idx, result, appended >>
                  ELSE /\ published' = published \cup {"continuing"}
                       /\ pc' = "loop"
                       /\ EndIteration
               /\ UNCHANGED << thrown, errorMessages >>
    /\ UNCHANGED << mode, iterations, consecutiveNoToolCalls, executionHistory,
                    everyTurnCalls, doneOk, errorsMetric, handlerAfterAbort,
                    subscribed, timedOut >>
    /\ UNCHANGED abortVars

\* The catch and the finally of execute(): _handleExecutionError publishes
\* every error but an AbortError, _cleanup resets the counters and the
\* history.
Finish ==
    /\ UNCHANGED execVars
    /\ UNCHANGED streamVars
    /\ UNCHANGED ctxVars
    /\ UNCHANGED executions
    /\ pc = "unwind"
    /\ IF thrown = "MaxIterations"
       THEN /\ published' = published \cup {"executionError"}
            /\ errorMessages' = errorMessages + 1
       ELSE UNCHANGED << published, errorMessages >>
    /\ iterations' = 0
    /\ consecutiveNoToolCalls' = 0
    /\ executionHistory' = ClearedHistory(executionHistory)
    /\ pc' = "ended"
    /\ UNCHANGED << mode, toolCalls, idx, result, appended, everyTurnCalls, doneOk,
                    thrown, errorsMetric, handlerAfterAbort >>
    /\ UNCHANGED gateVars
    /\ UNCHANGED abortVars

\* The abort signal is set by another task (Execution.cancel, reset or a
\* new run) while the run is suspended in an await.
Cancel ==
    /\ UNCHANGED execVars
    /\ UNCHANGED streamVars
    /\ UNCHANGED ctxVars
    /\ UNCHANGED executions
    /\ pc \in {"summarize", "llm", "glow", "handler", "sleep"}
    /\ ~aborted
    /\ aborted' = TRUE
    /\ abortedAt' = pc
    /\ UNCHANGED << mode, pc, errorsMetric, handlerAfterAbort >>
    /\ UNCHANGED loopVars
    /\ UNCHANGED gateVars
    /\ UNCHANGED outVars

Next ==
    \/ Execute
    \/ LoopTop
    \/ SummarizeOk
    \/ SummarizeFail
    \/ LlmReturn
    \/ LlmThrow
    \/ BeginCall
    \/ GlowDone
    \/ HandlerDone
    \/ PostAgent
    \/ EnterWait
    \/ Poll
    \/ Tick
    \/ DeliverResponse
    \/ AfterWait
    \/ Finish
    \/ Cancel

Spec == Init /\ [][Next]_vars

\* ------------------------------------------------- Execution.run, cancel

\* run(), from its entry to the await of _ensureInitialized; the calls are
\* numbered in the order in which they are made.  The running
\* execution, if the field names one, is aborted and the field is nulled.
Run_CancelCurrent(r) ==
    /\ runPc[r] = "idle"
    /\ \A q \in Runs : q < r => runPc[q] # "idle"
    /\ IF isRunning(currentAbortController)
       THEN /\ abortedControllers' = abortedControllers \cup {currentAbortController}
            /\ currentAbortController' = 0
       ELSE UNCHANGED << abortedControllers, currentAbortController >>
    /\ runPc' = [runPc EXCEPT ![r] = "init"]
    /\ UNCHANGED << runController, lockedBy >>
    /\ lastCall' = "run"
    /\ UNCHANGED << controllers, runSignal, runOutcome, conversation,
                    pauseMessages >>
    /\ UNCHANGED agentVars
    /\ UNCHANGED streamVars
    /\ UNCHANGED ctxVars

\* run() after _ensureInitialized: a fresh AbortController is stored in
\* the field, and the call awaits the tab and the model capabilities.
Run_CreateController(r) ==
    /\ runPc[r] = "init"
    /\ controllers' = controllers + 1
    /\ currentAbortController' = controllers + 1
    /\ runPc' = [runPc EXCEPT ![r] = "setup"]
    /\ runController' = [runController EXCEPT ![r] = controllers + 1]
    /\ UNCHANGED lockedBy
    /\ lastCall' = "run"
    /\ UNCHANGED << abortedControllers, runSignal, runOutcome, conversation,
                    pauseMessages >>
    /\ UNCHANGED agentVars
    /\ UNCHANGED streamVars
    /\ UNCHANGED ctxVars

\* The catch and the finally of run(), up to the await of unlockExecution:
\* the field is nulled whichever controller it names.
Run_Settle(r, outcome) ==
    /\ runOutcome' = [runOutcome EXCEPT ![r] = outcome]
    /\ currentAbortController' = 0
    /\ runPc' = [runPc EXCEPT ![r] = "unlock"]

\* run() with its tab known (the await of getCurrentPage, when no tab id
\* was passed, is over): without a tab it throws; with one the browser
\* context is locked to it and the call awaits the model capabilities.
Run_LockTab(r) ==
    /\ runPc[r] = "setup"
    /\ \E tab \in BOOLEAN :
          IF ~tab
          THEN /\ Run_Settle(r, "error")
               /\ UNCHANGED lockedBy
          ELSE /\ lockedBy' = r
               /\ runPc' = [runPc EXCEPT ![r] = "locked"]
               /\ UNCHANGED << currentAbortController, runOutcome >>
    /\ UNCHANGED runController
    /\ lastCall' = "run"
    /\ UNCHANGED << controllers, abortedControllers, runSignal, conversation,
                    pauseMessages >>
    /\ UNCHANGED agentVars
    /\ UNCHANGED streamVars
    /\ UNCHANGED ctxVars

\* run() with the model capabilities: the ExecutionContext is built on the
\* signal of the controller the field names at that moment, which throws
\* when the field is null; then the agent is started.
Run_CreateContext(r) ==
    /\ runPc[r] = "locked"
    /\ IF ~isRunning(currentAbortController)
       THEN /\ Run_Settle(r, "error")
            /\ UNCHANGED runSignal
       ELSE /\ runSignal' = [runSignal EXCEPT ![r] = currentAbortController]
            /\ runPc' = [runPc EXCEPT ![r] = "agent"]
            /\ UNCHANGED << currentAbortController, runOutcome >>
    /\ UNCHANGED << runController, lockedBy >>
    /\ lastCall' = "run"
    /\ UNCHANGED << controllers, abortedControllers, conversation, pauseMessages >>
    /\ UNCHANGED agentVars
    /\ UNCHANGED streamVars
    /\ UNCHANGED ctxVars

\* The executing agent adds a message to the MessageManager of its
\* ExecutionContext, which is the one of the singleton.
Run_AgentAddsMessage(r) ==
    /\ runPc[r] = "agent"
    /\ conversation < MaxMessages
    /\ conversation' = conversation + 1
    /\ UNCHANGED << runController, lockedBy >>
    /\ lastCall' = "run"
    /\ UNCHANGED << currentAbortController, controllers, abortedControllers,
                    runPc, runSignal, runOutcome, pauseMessages >>
    /\ UNCHANGED agentVars
    /\ UNCHANGED streamVars
    /\ UNCHANGED ctxVars

\* The agent's execute() settles: it resolves, or throws an error, or,
\* with its signal aborted, throws the AbortError.
Run_AgentSettles(r) ==
    /\ runPc[r] = "agent"
    /\ \E outcome \in {"completed", "error", "cancelled"} :
          /\ outcome = "cancelled" => runSignal[r] \in abortedControllers
          /\ Run_Settle(r, outcome)
    /\ UNCHANGED << runController, lockedBy >>
    /\ lastCall' = "run"
    /\ UNCHANGED << controllers, abortedControllers, runSignal, conversation,
                    pauseMessages >>
    /\ UNCHANGED agentVars
    /\ UNCHANGED streamVars
    /\ UNCHANGED ctxVars

\* unlockExecution, called by the finally block whether or not this call
\* locked the browser context, takes effect and run() returns.
Run_Unlock(r) ==
    /\ runPc[r] = "unlock"
    /\ runPc' = [runPc EXCEPT ![r] = "returned"]
    /\ lockedBy' = 0
    /\ UNCHANGED runController
    /\ lastCall' = "run"
    /\ UNCHANGED << currentAbortController, controllers, abortedControllers,
                    runSignal, runOutcome, conversation, pauseMessages >>
    /\ UNCHANGED agentVars
    /\ UNCHANGED streamVars
    /\ UNCHANGED ctxVars

\* Execution.cancel(): nothing but a log line when the field is null;
\* else the pause message is published, the controller the field names is
\* aborted and the field is nulled.
Execution_cancel ==
    /\ IF isRunning(currentAbortController)
       THEN /\ pauseMessages' = pauseMessages + 1
            /\ abortedControllers' = abortedControllers \cup {currentAbortController}
            /\ currentAbortController' = 0
       ELSE UNCHANGED << pauseMessages, abortedControllers, currentAbortController >>
    /\ UNCHANGED << runController, lockedBy >>
    /\ lastCall' = "cancel"
    /\ UNCHANGED << controllers, runPc, runSignal, runOutcome, conversation >>
    /\ UNCHANGED agentVars
    /\ UNCHANGED streamVars
    /\ UNCHANGED ctxVars

\* Execution.reset(): the controller the field names, if any, is aborted
\* and the field nulled; the MessageManager is cleared.
Execution_reset ==
    /\ IF isRunning(currentAbortController)
       THEN /\ abortedControllers' = abortedControllers \cup {currentAbortController}
            /\ currentAbortController' = 0
       ELSE UNCHANGED << abortedControllers, currentAbortController >>
    /\ conversation' = 0
    /\ UNCHANGED << runController, lockedBy >>
    /\ lastCall' = "reset"
    /\ UNCHANGED << controllers, runPc, runSignal, runOutcome, pauseMessages >>
    /\ UNCHANGED agentVars
    /\ UNCHANGED streamVars
    /\ UNCHANGED ctxVars

NextExec ==
    \/ \E r \in Runs : Run_CancelCurrent(r)
    \/ \E r \in Runs : Run_CreateController(r)
    \/ \E r \in Runs : Run_LockTab(r)
    \/ \E r \in Runs : Run_CreateContext(r)
    \/ \E r \in Runs : Run_AgentAddsMessage(r)
    \/ \E r \in Runs : Run_AgentSettles(r)
    \/ \E r \in Runs : Run_Unlock(r)
    \/ Execution_cancel
    \/ Execution_reset

SpecExec == Init /\ [][NextExec]_vars

\* ---------------------------------------- _buildExecutionHistoryContext

\* The variables of the loop that the history context does not touch.
agentRest == << mode, pc, consecutiveNoToolCalls, toolCalls, idx, result,
                appended, everyTurnCalls, doneOk, errorsMetric,
                handlerAfterAbort, gateVars, abortVars, outVars, executions >>

\* _run*Agent calls _buildExecutionHistoryContext at the top of iteration
\* it, with a history and a token limit.
CallBuildContext ==
    /\ ctxPc = "idle"
    /\ \E it \in 1..MAX_UNIFIED_ITERATIONS :
          \E h \in Histories(it) :
             /\ iterations' = it
             /\ executionHistory' = h
             /\ historyBefore' = h
    /\ \E limit \in 0..MaxTokenLimit : tokenLimit' = limit
    /\ ctxCalls' = 1
    /\ ctxPc' = "render"
    /\ UNCHANGED historyContext
    /\ UNCHANGED stateVars
    /\ UNCHANGED agentRest
    /\ UNCHANGED execVars
    /\ UNCHANGED streamVars

\* The call up to its await: the empty history, the full rendering and
\* its token count, and the start of the summarization.
RenderContext ==
    /\ ctxPc = "render"
    /\ IF executionHistory = << >>
       THEN /\ historyContext' = NoPreviousActions
            /\ ctxPc' = "returned"
       ELSE IF NeedsSummary(executionHistory, tokenLimit)
       THEN /\ ctxPc' = "summarize"
            /\ UNCHANGED historyContext
       ELSE /\ historyContext' = FullContext(executionHistory)
            /\ ctxPc' = "returned"
    /\ UNCHANGED << tokenLimit, historyBefore, ctxCalls, iterations,
                    executionHistory >>
    /\ UNCHANGED stateVars
    /\ UNCHANGED agentRest
    /\ UNCHANGED execVars
    /\ UNCHANGED streamVars

\* The summarizer returned a text of t tokens, within the limit it was
\* given: the history becomes one summary entry and the text is returned.
CompactOk ==
    /\ ctxPc = "summarize"
    /\ \E t \in 0..SummaryBudget(tokenLimit) :
          /\ executionHistory' = << SummaryEntry(iterations, t) >>
          /\ historyContext' = SummaryContext(t)
    /\ ctxPc' = "returned"
    /\ UNCHANGED << tokenLimit, historyBefore, ctxCalls, iterations >>
    /\ UNCHANGED stateVars
    /\ UNCHANGED agentRest
    /\ UNCHANGED execVars
    /\ UNCHANGED streamVars

\* The summarizer threw: the catch returns the rendering of the last
\* entries.
CompactFail ==
    /\ ctxPc = "summarize"
    /\ historyContext' = FallbackContext(executionHistory)
    /\ ctxPc' = "returned"
    /\ UNCHANGED << tokenLimit, historyBefore, ctxCalls, iterations,
                    executionHistory >>
    /\ UNCHANGED stateVars
    /\ UNCHANGED agentRest
    /\ UNCHANGED execVars
    /\ UNCHANGED streamVars

\* _run*Agent goes on with what the call returned: the user prompt, the
\* browser state and the model invocation.
InvokeModel ==
    /\ ctxPc = "returned"
    /\ ctxPc' = "llm"
    /\ UNCHANGED << tokenLimit, historyContext, historyBefore, ctxCalls,
                    iterations, executionHistory >>
    /\ UNCHANGED stateVars
    /\ UNCHANGED agentRest
    /\ UNCHANGED execVars
    /\ UNCHANGED streamVars

\* The model's answer leaves no record (no tool call, or it threw) and the
\* next iteration builds its history context under the same limit.
NextContext ==
    /\ ctxPc = "llm"
    /\ ctxCalls < MaxContextCalls
    /\ LoopCondition(FALSE, iterations)
    /\ iterations' = iterations + 1
    /\ historyBefore' = executionHistory
    /\ ctxCalls' = ctxCalls + 1
    /\ ctxPc' = "render"
    /\ UNCHANGED << tokenLimit, historyContext, executionHistory >>
    /\ UNCHANGED stateVars
    /\ UNCHANGED agentRest
    /\ UNCHANGED execVars
    /\ UNCHANGED streamVars

NextHistory ==
    \/ CallBuildContext
    \/ RenderContext
    \/ CompactOk
    \/ CompactFail
    \/ InvokeModel
    \/ NextContext

SpecHistory == Init /\ [][NextHistory]_vars

\* ---------------------------------------------- execute() called again

\* execute() is called on an agent on which an earlier call has ended:
\* _initialize and the start message, as in Execute.  The abort signal and
\* the human-input state of the ExecutionContext are what the earlier call
\* left; what the model records about one call starts afresh.
ExecuteAgain ==
    /\ pc = "ended"
    /\ executions < MaxExecutes
    /\ executions' = executions + 1
    /\ \E m \in {"dynamic", "predefined"} : mode' = m
    /\ iterations' = 0
    /\ consecutiveNoToolCalls' = 0
    /\ executionHistory' = ClearedHistory(executionHistory)
    /\ pc' = "loop"
    /\ toolCalls' = << >>
    /\ idx' = 1
    /\ result' = NoFlags
    /\ appended' = 0
    /\ everyTurnCalls' = TRUE
    /\ doneOk' = FALSE
    /\ published' = {"start"}
    /\ errorMessages' = 0
    /\ thrown' = "none"
    /\ errorsMetric' = FALSE
    /\ handlerAfterAbort' = FALSE
    /\ elapsed' = 0
    /\ timedOut' = FALSE
    /\ firstDelivered' = "none"
    /\ lastDelivered' = "none"
    /\ deliveries' = 0
    /\ waitReturned' = "none"
    /\ UNCHANGED << humanInputRequestId, humanInputResponse, subscribed >>
    /\ UNCHANGED abortVars
    /\ UNCHANGED execVars
    /\ UNCHANGED streamVars
    /\ UNCHANGED ctxVars

NextReuse ==
    \/ Next
    \/ ExecuteAgain

SpecReuse == Init /\ [][NextReuse]_vars

\* ---------------------------------------------- _getBrowserStateMessage

\* The strings getBrowserStateString can return: with every element
\* (kind "full") or with the hidden elements left out (kind "reduced").
BrowserStates(kind) ==
    { [kind |-> kind, length |-> n, truncated |-> FALSE] :
        n \in 0..MaxStateLength }

\* The values TokenCounter.countMessage can give for a browser state
\* string.  The counter is not among the sources; the count of a string is
\* an input of the call.
StateTokenCounts == 0..MaxStateTokens

\* The limits the loops pass: 0.7 of what the prompts leave of the model's
\* window, which is negative when the prompts alone exceed the window.
StateTokenLimits == (0 - 1)..MaxStateTokens

\* tokens >= browserStateTokensLimit, a test the code does not make.
ExceedsLimit_OrEqual(tokens, limit) == tokens >= limit

\* tokens > browserStateTokensLimit, the test made on both strings.
ExceedsLimit(tokens, limit) == tokens > limit

\* Math.floor(length * (limit / tokens)) as substring(0, .) uses it: a
\* negative, infinite or NaN end counts as 0.
TargetLength(length, tokens, limit) ==
    IF tokens = 0 \/ limit <= 0
    THEN 0
    ELSE (length * limit) \div tokens

\* The truncated string: the first TargetLength characters, then the
\* truncation indicator.
Truncate(state, tokens, limit) ==
    [state EXCEPT !.length = TargetLength(state.length, tokens, limit),
                  !.truncated = TRUE]

\* The message the call returns: the browser state between its tags, with
\* or without a screenshot, or the empty message.
BrowserStateMessage(include, state, image) ==
    IF include /\ state # NoState
    THEN [text |-> "browser-state", state |-> state, image |-> image]
    ELSE IF image
    THEN [text |-> "none", state |-> NoState, image |-> TRUE]
    ELSE [text |-> "empty", state |-> NoState, image |-> FALSE]

\* _run*Agent calls _getBrowserStateMessage; the call runs to its first
\* await, the request of the full string when the state is included.
GetBrowserStateMessage ==
    /\ bsPc = "idle"
    /\ \E include \in BOOLEAN :
          /\ includeBrowserState' = include
          /\ bsPc' = IF include THEN "full" ELSE "message"
    /\ \E limit \in StateTokenLimits : browserStateTokensLimit' = limit
    /\ browserStateString' = NoState
    /\ UNCHANGED << fullState, fullTokens, reducedState, reducedTokens,
                    hiddenRequests, stateMessage >>
    /\ UNCHANGED historyVars
    /\ UNCHANGED agentVars
    /\ UNCHANGED execVars
    /\ UNCHANGED streamVars

\* getBrowserStateString(simplified) returned: the string is counted and,
\* over the limit, the string without hidden elements is requested.
FullStateReturns ==
    /\ bsPc = "full"
    /\ \E state \in BrowserStates("full") :
          \E tokens \in StateTokenCounts :
             /\ browserStateString' = state
             /\ fullState' = state
             /\ fullTokens' = tokens
             /\ IF ExceedsLimit(tokens, browserStateTokensLimit)
                THEN /\ hiddenRequests' = hiddenRequests + 1
                     /\ bsPc' = "reduced"
                ELSE /\ bsPc' = "message"
                     /\ UNCHANGED hiddenRequests
    /\ UNCHANGED << includeBrowserState, browserStateTokensLimit,
                    reducedState, reducedTokens, stateMessage >>
    /\ UNCHANGED historyVars
    /\ UNCHANGED agentVars
    /\ UNCHANGED execVars
    /\ UNCHANGED streamVars

\* getBrowserStateString(simplified, true) returned: the string is counted
\* and, still over the limit, cut and ended with the truncation indicator.
ReducedStateReturns ==
    /\ bsPc = "reduced"
    /\ \E state \in BrowserStates("reduced") :
          \E tokens \in StateTokenCounts :
             /\ reducedState' = state
             /\ reducedTokens' = tokens
             /\ browserStateString' =
                   IF ExceedsLimit(tokens, browserStateTokensLimit)
                   THEN Truncate(state, tokens, browserStateTokensLimit)
                   ELSE state
    /\ bsPc' = "message"
    /\ UNCHANGED << includeBrowserState, browserStateTokensLimit, fullState,
                    fullTokens, hiddenRequests, stateMessage >>
    /\ UNCHANGED historyVars
    /\ UNCHANGED agentVars
    /\ UNCHANGED execVars
    /\ UNCHANGED streamVars

\* The rest of the call: the screenshot, taken or not, and the message.
BuildStateMessage ==
    /\ bsPc = "message"
    /\ \E image \in BOOLEAN :
          stateMessage' =
             BrowserStateMessage(includeBrowserState, browserStateString, image)
    /\ bsPc' = "returned"
    /\ UNCHANGED << includeBrowserState, browserStateTokensLimit,
                    browserStateString, fullState, fullTokens, reducedState,
                    reducedTokens, hiddenRequests >>
    /\ UNCHANGED historyVars
    /\ UNCHANGED agentVars
    /\ UNCHANGED execVars
    /\ UNCHANGED streamVars

NextBrowserState ==
    \/ GetBrowserStateMessage
    \/ FullStateReturns
    \/ ReducedStateReturns
    \/ BuildStateMessage

SpecBrowserState == Init /\ [][NextBrowserState]_vars

\* ------------------------------------------------- _waitForHumanInput

\* A loop body calls _waitForHumanInput: a batch has asked for the human,
\* with or without a request id in the context, and the abort signal may
\* be set already.
CallWaitForHumanInput ==
    /\ pc = "idle"
    /\ \E m \in {"dynamic", "predefined"} : mode' = m
    /\ \E id \in {0, 1} : humanInputRequestId' = id
    /\ \E sig \in BOOLEAN :
          /\ aborted' = sig
          /\ abortedAt' = IF sig THEN "handler" ELSE "none"
    /\ iterations' = 1
    /\ result' = [doneToolCalled |-> FALSE, requiresHumanInput |-> TRUE]
    /\ pc' = "wait"
    /\ UNCHANGED << consecutiveNoToolCalls, executionHistory, toolCalls, idx,
                    appended, everyTurnCalls, doneOk, errorsMetric,
                    handlerAfterAbort >>
    /\ UNCHANGED << humanInputResponse, subscribed, elapsed, firstDelivered,
                    lastDelivered, deliveries, waitReturned, timedOut >>
    /\ UNCHANGED outVars
    /\ UNCHANGED execVars
    /\ UNCHANGED streamVars
    /\ UNCHANGED ctxVars
    /\ UNCHANGED executions

NextWait ==
    \/ CallWaitForHumanInput
    \/ EnterWait
    \/ Poll
    \/ Tick
    \/ DeliverResponse
    \/ Cancel

\* The synchronous stretches of the wait run to their end, and the timer
\* of the poll loop fires.
SpecWait ==
    /\ Init
    /\ [][NextWait]_vars
    /\ WF_vars(EnterWait)
    /\ WF_vars(Poll)
    /\ WF_vars(Tick)

\* ------------------------------------------- _invokeLLMWithStreaming

\* The messages _run*Agent puts into the MessageManager it creates for the
\* iteration.
IterationMessages == {"system", "browserState", "user"}

\* MessageManager.getMessages on the manager of the iteration, on which
\* queued system reminders have been queued.
getMessages(queued) ==
    IF queued > 0 THEN IterationMessages \cup {"reminder"} ELSE IterationMessages

\* _run*Agent creates the MessageManager of the iteration and calls
\* _invokeLLMWithStreaming on it, which reads its messages and opens the
\* stream.
Stream_Open ==
    /\ streamPc = "idle"
    /\ streamPc' = "streaming"
    /\ messageHistory' = getMessages(0)
    /\ UNCHANGED << chunksSeen, streamToolCalls, accumulatedChunk, accumulatedText,
                    hasStartedThinking, currentMsgId, hasProhibitedContent,
                    lastPublish, publishCount, reminders, llmResponse,
                    dispatchedCalls >>
    /\ UNCHANGED << detectedBefore, streamTurn >>
    /\ UNCHANGED << agentVars, execVars, ctxVars >>

\* The run continues: the next iteration's _run*Agent creates a new
\* MessageManager, on which nothing is queued, and calls
\* _invokeLLMWithStreaming on it; the locals of the call are new.
Stream_NextIteration ==
    /\ streamPc \in {"dispatched", "nocalls"}
    /\ streamTurn = "first"
    /\ streamTurn' = "next"
    /\ detectedBefore' = hasProhibitedContent
    /\ reminders' = 0
    /\ messageHistory' = getMessages(0)
    /\ streamPc' = "streaming"
    /\ chunksSeen' = 0
    /\ streamToolCalls' = << >>
    /\ accumulatedChunk' = NoChunk
    /\ accumulatedText' = << >>
    /\ hasStartedThinking' = FALSE
    /\ currentMsgId' = 0
    /\ hasProhibitedContent' = FALSE
    /\ lastPublish' = NoPublish
    /\ publishCount' = 0
    /\ llmResponse' = NoChunk
    /\ dispatchedCalls' = << >>
    /\ UNCHANGED << agentVars, execVars, ctxVars >>

\* One turn of the for-await loop: the stream delivers a chunk.
Stream_Chunk ==
    /\ streamPc = "streaming"
    /\ chunksSeen < MaxChunks
    /\ \E chunk \in Chunks :
          LET isText == chunk.content # << >>
              text == IF isText THEN accumulatedText \o chunk.content
                                ELSE accumulatedText
              detected == /\ isText
                          /\ ~hasProhibitedContent
                          /\ DetectedTag(Scanned(text, chunk.content))
              prohibited == hasProhibitedContent \/ detected
              placeholder == detected /\ currentMsgId # 0
              streams == isText /\ ~prohibited
          IN /\ chunksSeen' = chunksSeen + 1
             /\ streamToolCalls' = streamToolCalls \o chunk.tool_calls
             /\ accumulatedText' = text
             /\ hasProhibitedContent' = prohibited
             /\ reminders' = IF detected THEN reminders + 1 ELSE reminders
             /\ hasStartedThinking' = (hasStartedThinking \/ streams)
             /\ currentMsgId' = IF streams THEN 1 ELSE currentMsgId
             /\ lastPublish' =
                   IF placeholder THEN [kind |-> "placeholder", text |-> << >>]
                   ELSE IF streams THEN [kind |-> "text", text |-> text]
                   ELSE lastPublish
             /\ publishCount' = IF placeholder \/ streams
                                THEN publishCount + 1 ELSE publishCount
             /\ accumulatedChunk' = concat(accumulatedChunk, chunk)
    /\ UNCHANGED << streamPc, llmResponse, dispatchedCalls >>
    /\ UNCHANGED << messageHistory, detectedBefore, streamTurn >>
    /\ UNCHANGED << agentVars, execVars, ctxVars >>

\* The stream ends: the final publish of clean text, and the AIMessage
\* built from the accumulated chunk.
Stream_End ==
    /\ streamPc = "streaming"
    /\ IF /\ hasStartedThinking
          /\ ~hasProhibitedContent
          /\ trim(accumulatedText)
          /\ currentMsgId # 0
       THEN /\ lastPublish' = [kind |-> "text", text |-> accumulatedText]
            /\ publishCount' = publishCount + 1
       ELSE UNCHANGED << lastPublish, publishCount >>
    /\ llmResponse' =
          IF accumulatedChunk.kind = "undefined"
          THEN [kind |-> "message", content |-> << >>, tool_calls |-> << >>]
          ELSE [kind |-> "message", content |-> accumulatedChunk.content,
                tool_calls |-> accumulatedChunk.tool_calls]
    /\ streamPc' = "returned"
    /\ UNCHANGED << chunksSeen, streamToolCalls, accumulatedChunk, accumulatedText,
                    hasStartedThinking, currentMsgId, hasProhibitedContent,
                    reminders, dispatchedCalls >>
    /\ UNCHANGED << messageHistory, detectedBefore, streamTurn >>
    /\ UNCHANGED << agentVars, execVars, ctxVars >>

\* checkIfAborted inside the loop throws: no message is returned.
Stream_Abort ==
    /\ streamPc = "streaming"
    /\ chunksSeen > 0
    /\ streamPc' = "thrown"
    /\ UNCHANGED << chunksSeen, streamToolCalls, accumulatedChunk, accumulatedText,
                    hasStartedThinking, currentMsgId, hasProhibitedContent,
                    lastPublish, publishCount, reminders, llmResponse,
                    dispatchedCalls >>
    /\ UNCHANGED << messageHistory, detectedBefore, streamTurn >>
    /\ UNCHANGED << agentVars, execVars, ctxVars >>

\* _run*Agent with the returned message: its tool calls, if it has any, go
\* to _processToolCalls.
Stream_Dispatch ==
    /\ streamPc = "returned"
    /\ IF Len(llmResponse.tool_calls) > 0
       THEN /\ dispatchedCalls' = llmResponse.tool_calls
            /\ streamPc' = "dispatched"
       ELSE /\ streamPc' = "nocalls"
            /\ UNCHANGED dispatchedCalls
    /\ UNCHANGED << chunksSeen, streamToolCalls, accumulatedChunk, accumulatedText,
                    hasStartedThinking, currentMsgId, hasProhibitedContent,
                    lastPublish, publishCount, reminders, llmResponse >>
    /\ UNCHANGED << messageHistory, detectedBefore, streamTurn >>
    /\ UNCHANGED << agentVars, execVars, ctxVars >>

NextStream ==
    \/ Stream_Open
    \/ Stream_Chunk
    \/ Stream_End
    \/ Stream_Abort
    \/ Stream_Dispatch
    \/ Stream_NextIteration

SpecStream == Init /\ [][NextStream]_vars


\* ------------------------------------------------------------ properties

\* The run is past the tool batch of the current iteration.
BatchOver == pc \in {"post", "wait", "poll", "sleep", "waited", "unwind"}

\* The history entries appended in the current iteration, in order.
Appended == SubSeq(executionHistory, Len(executionHistory) - appended + 1,
                   Len(executionHistory))

\* A call that the dispatch turns into an ok:false result.
Failing(call) == call.name \notin RegisteredTools \/ call.behaviour = "throw"

\* C1 (as stated): at the end of every iteration, the number of records
\* appended in it equals the number of tool calls the model returned.
C1_RecordPerCallAlways ==
    BatchOver => appended = Len(toolCalls)

\* C1 (amended): the records appended in an iteration are those of a
\* prefix of the model's tool calls, one per call and in the order of the
\* calls; while the batch is dispatched there is one record per call
\* dispatched so far; and when the abort signal is not set the prefix is
\* the whole batch, throwing handlers and unknown tools included.
\* (_cleanup empties the history, so the records are read before it.)
C1_RecordPerCall ==
    pc # "ended" =>
       /\ appended <= Len(toolCalls)
       /\ appended <= Len(executionHistory)
       /\ \A k \in 1..appended :
             /\ Appended[k].tool = toolCalls[k].name
             /\ Appended[k].iteration = iterations
       /\ pc \in {"tools", "glow", "handler"} => appended = idx - 1
       /\ (BatchOver /\ ~aborted) => appended = Len(toolCalls)

\* C1 witness: a batch of two calls, the first with a throwing handler,
\* has been dispatched and has left two records.
C1_Witness ==
    /\ pc = "post" /\ ~aborted
    /\ Len(toolCalls) = 2 /\ toolCalls[1].behaviour = "throw"
    /\ appended = 2

\* C2 (as stated): a run whose model returns no tool call on any turn ends
\* after exactly MAX_RETRIES iterations, failed with the stall reason.
C2_StallFailsAfterThree ==
    (pc = "unwind" /\ ~aborted /\ iterations > 0
        /\ consecutiveNoToolCalls = iterations)
    => (iterations = MAX_RETRIES /\ thrown = "NoToolCalls")

\* C3 (as stated): once done has returned ok:true, no further iteration is
\* started, and the run ends Completed: execute() throws nothing and the
\* completion message is published.
C3_DoneCompletes ==
    (doneOk /\ ~aborted)
    => /\ pc \notin {"summarize", "llm"}
       /\ pc = "unwind" => (thrown = "none" /\ "completed" \in published)

\* C4: the iteration counter never exceeds the cap; a run that nobody
\* stops (no abort signal, no abort from the human), in which every answer
\* of the model holds a tool call and done never succeeds, ends after
\* exactly MAX_UNIFIED_ITERATIONS iterations with the iteration-limit
\* error, published as an error message; and that error is thrown only at
\* the cap.
C4_IterationLimit ==
    /\ iterations <= MAX_UNIFIED_ITERATIONS
    /\ (pc = "unwind" /\ everyTurnCalls /\ ~doneOk /\ ~aborted
           /\ waitReturned # "abort")
       => /\ iterations = MAX_UNIFIED_ITERATIONS
          /\ thrown = "MaxIterations"
          /\ "iterationLimit" \in published
          /\ errorMessages >= 1
    /\ thrown = "MaxIterations"
       => (pc \in {"unwind", "ended"} /\ "iterationLimit" \in published
           /\ (pc = "unwind" => iterations = MAX_UNIFIED_ITERATIONS))

\* C4 witness: a run of tool calls without done has reached the cap and
\* thrown the iteration-limit error.
C4_Witness ==
    /\ pc = "unwind" /\ everyTurnCalls /\ ~doneOk /\ ~aborted
    /\ iterations = MAX_UNIFIED_ITERATIONS /\ thrown = "MaxIterations"

\* C5 (as stated): once the abort signal is set while the run is not in
\* the human-input wait, no tool handler is started any more and the run
\* ends with the AbortError.
C5_CancelStopsRun ==
    (aborted /\ abortedAt # "sleep")
    => /\ ~handlerAfterAbort
       /\ pc = "unwind" => thrown = "AbortError"

\* A call of run() whose agent is executing on a signal that is not
\* aborted.
LiveRun(r) == runPc[r] = "agent" /\ runSignal[r] \notin abortedControllers

\* C6 (as stated): at any time at most one call of run() has an agent
\* executing on a non-aborted cancellation signal: the call that built its
\* execution context last has aborted every call before it.
C6_SingleLiveRun ==
    Cardinality({r \in Runs : LiveRun(r)}) <= 1

\* A call of run() that has been made and whose agent has not settled.
InFlight(r) == runPc[r] \in {"init", "setup", "locked", "agent"}

\* The frame of the singleton that cancel() must leave alone when it finds
\* nothing to cancel.
sessionVars == << currentAbortController, controllers, abortedControllers,
                  runPc, runSignal, runOutcome, conversation, pauseMessages >>

\* C15 (as stated): a call of cancel() leaves every call of run() that is
\* in flight with an agent on an aborted signal and leaves the conversation
\* history as it was; a call of reset() does the same to the runs and
\* leaves the conversation history empty; and a call of cancel() with no
\* run in flight changes nothing and publishes nothing.
C15_CancelAndReset ==
    [][ /\ lastCall' \in {"cancel", "reset"}
           => \A r \in Runs :
                 InFlight(r) => /\ runPc'[r] = "agent"
                                /\ runSignal'[r] \in abortedControllers'
        /\ lastCall' = "cancel" => conversation' = conversation
        /\ lastCall' = "reset" => conversation' = 0
        /\ (lastCall' = "cancel" /\ \A r \in Runs : ~InFlight(r))
           => UNCHANGED sessionVars
      ]_vars

\* C7 (as stated): when a wait has timed out, the timeout message is
\* published, the run does not go back to iterating, and it ends with the
\* abort outcome.
C7_TimeoutAborts ==
    timedOut
    => /\ "timeout" \in published
       /\ pc \in {"waited", "unwind", "ended"}
       /\ pc \in {"unwind", "ended"} => thrown = "AbortError"

\* C8: when the abort signal is set while the run is suspended in the
\* human-input wait, the wait returns abort, also when a response is
\* stored at that poll; the loop does not iterate again and the run ends
\* with the AbortError.
C8_CancelBeatsWait ==
    (aborted /\ abortedAt = "sleep")
    => /\ pc \in {"sleep", "poll", "waited", "unwind", "ended"}
       /\ pc = "waited" => waitReturned = "abort"
       /\ pc \in {"unwind", "ended"} => thrown = "AbortError"

\* C8 witness: the wait has returned abort with the signal set and a done
\* response stored.
C8_Witness ==
    /\ pc = "waited" /\ aborted /\ abortedAt = "sleep"
    /\ humanInputResponse = "done" /\ waitReturned = "abort"

C10_FailedCallsRecorded ==
    /\ pc # "ended" => \A k \in 1..appended :
          Failing(toolCalls[k]) => (~Appended[k].ok /\ Appended[k].error # "")
    /\ \A k \in 1..Len(executionHistory) :
          (executionHistory[k].summary = -1
              /\ executionHistory[k].tool \notin RegisteredTools)
          => (~executionHistory[k].ok /\ executionHistory[k].error = "Unknown tool")
    /\ (pc = "post" /\ ~aborted /\ \E k \in 1..Len(toolCalls) : Failing(toolCalls[k]))
       => /\ appended = Len(toolCalls)
          /\ thrown = "none"
          /\ result.doneToolCalled =
                (\E k \in 1..Len(toolCalls) :
                    toolCalls[k].name = "done" /\ ~Failing(toolCalls[k]))

\* C10 witness: a batch that starts with a call to an unknown tool has
\* been dispatched to its end, and the call after it has succeeded.
C10_Witness ==
    /\ pc = "post" /\ ~aborted
    /\ Len(toolCalls) = 2 /\ toolCalls[1].name = "bogus"
    /\ appended = 2 /\ ~Appended[1].ok /\ Appended[2].ok

\* No answer of the model was ever received in this run: no call was
\* recorded, no empty answer was counted, and the signal was never set, so
\* every model invocation of the run threw.
ModelNeverAnswered ==
    /\ iterations > 0 /\ ~aborted
    /\ consecutiveNoToolCalls = 0 /\ executionHistory = << >>

\* C11 (as stated): a run in which every model invocation fails ends after
\* MAX_RETRIES attempts, failed with the model-call failure as its reason.
C11_ModelFailureEndsRun ==
    (pc = "unwind" /\ ModelNeverAnswered)
    => (iterations = MAX_RETRIES /\ thrown = "ModelCallFailed")

\* The smaller of two numbers.
Min(a, b) == IF a <= b THEN a ELSE b

\* The highest iteration number among the entries of a non-empty history.
MaxIteration(h) ==
    CHOOSE i \in {h[k].iteration : k \in 1..Len(h)} :
       \A k \in 1..Len(h) : h[k].iteration <= i

C13_SummaryCoversHistory ==
    (ctxPc = "returned" /\ historyContext.kind = "summary")
    => /\ Len(executionHistory) = 1
       /\ RenderEntry(executionHistory[1]).kind = "summary"
       /\ RenderEntry(executionHistory[1]).iteration = MaxIteration(historyBefore)

\* C14 (as stated): after a successful compaction, with a summarizer that
\* keeps to the token limit it was given, the rendered token count of the
\* history is at most the limit of the call, and the next rendering under
\* that limit starts no compaction.
C14_CompactionFitsLimit ==
    (ctxPc = "returned" /\ historyContext.kind = "summary")
    => /\ HistoryTokens(executionHistory) <= tokenLimit
       /\ ~NeedsSummary(executionHistory, tokenLimit)

\* C16 (as stated): a run that the user cancelled and that ends by the
\* AbortError has taken no error-reporting action since the abort signal was
\* set: the errors metric was not incremented and _handleExecutionError
\* published no error message.
C16_CancelReportsNothing ==
    (aborted /\ thrown = "AbortError")
    => (~errorsMetric /\ "executionError" \notin published)

\* C17 (as stated): a run that ends because the iteration limit was exceeded
\* has published exactly one message of type error, the publishes of the
\* loop and of _handleExecutionError counted together.
C17_OneErrorMessage ==
    (pc = "ended" /\ thrown = "MaxIterations" /\ ~timedOut) => errorMessages = 1

\* C18 (as stated): when execute() ends by throwing an error other than the
\* AbortError, the execution history recorded so far is still held.
C18_HistoryKeptOnFailure ==
    [][ (pc = "unwind" /\ pc' = "ended" /\ thrown = "MaxIterations")
        => executionHistory' = executionHistory ]_vars

\* C19 (as stated): the message _invokeLLMWithStreaming returns carries
\* every tool call the stream carried, in order, whether or not a prohibited
\* tag was detected, and the calls handed to _processToolCalls are those.
C19_ToolCallsSurvive ==
    /\ streamPc \in {"returned", "dispatched", "nocalls"}
       => llmResponse.tool_calls = streamToolCalls
    /\ streamPc = "dispatched" => dispatchedCalls = streamToolCalls
    /\ streamPc = "nocalls" => streamToolCalls = << >>

C19_Witness ==
    /\ streamPc = "dispatched"
    /\ hasProhibitedContent
    /\ dispatchedCalls = << "click", "done" >>

\* C20 (as stated): once the accumulated text holds a prohibited tag, in
\* one chunk or split over several, no text is published: the last message
\* published is no text, and when a message id exists it is the placeholder;
\* and no published text ever holds a tag.
C20_NoTextAfterTag ==
    /\ lastPublish.kind = "text" => ~DetectedTag(lastPublish.text)
    /\ DetectedTag(accumulatedText)
       => /\ hasProhibitedContent
          /\ lastPublish.kind # "text"
          /\ currentMsgId # 0 => lastPublish.kind = "placeholder"

C20_Witness ==
    /\ streamPc = "returned"
    /\ lastPublish.kind = "placeholder"
    /\ accumulatedText = << "a", "<", "/", ">" >>

\* C21 (as stated): a call of run() that has created its controller, has
\* not reached its finally block and whose controller nobody has aborted
\* finds its own controller in the field: isRunning() returns true and
\* cancel() would abort its signal.
C21_OwnControllerInField ==
    \A r \in Runs :
       (runPc[r] \in {"setup", "locked", "agent"}
        /\ runController[r] \notin abortedControllers)
       => (isRunning(currentAbortController) /\ currentAbortController = runController[r])

\* C27 (as stated): while some call of run() stands between its
\* lockExecutionToTab and its finally block, the browser context is locked.
C27_LockHeldWhileRunning ==
    (\E r \in Runs : runPc[r] \in {"locked", "agent"}) => lockedBy # 0

\* C22 (as stated): after every step of a run the history is ordered by
\* non-decreasing iteration number, a summary record stands first, the
\* records of the current iteration follow the order of the model's calls,
\* and every step keeps the records it found in their order: it appends
\* to them, or replaces all of them by one summary record, or (the cleanup
\* at the end of the run) empties the history.
C22_HistoryOrdered ==
    [][ LET h == executionHistory'
            old == executionHistory
        IN /\ \A k \in 1..(Len(h) - 1) : h[k].iteration <= h[k + 1].iteration
           /\ \A k \in 1..Len(h) : h[k].summary # -1 => k = 1
           /\ pc' # "ended"
              => \A k \in 1..appended' :
                    /\ Len(h) - appended' + k >= 1
                    /\ h[Len(h) - appended' + k].tool = toolCalls'[k].name
           /\ \/ Len(h) >= Len(old) /\ SubSeq(h, 1, Len(old)) = old
              \/ pc = "summarize" /\ Len(h) = 1 /\ h[1].summary # -1
              \/ pc' = "ended" /\ h = << >>
      ]_vars

\* C22 witness: a summary record followed by the two records of one batch,
\* in the order of its calls.
C22_Witness ==
    /\ pc = "post"
    /\ Len(executionHistory) = 3
    /\ executionHistory[1].summary # -1
    /\ executionHistory[2].tool = "bogus"
    /\ executionHistory[3].tool = "click"
    /\ executionHistory[1].iteration < executionHistory[2].iteration

\* C23 (as stated): whenever a wait for the human has returned, the loop
\* body of the dynamic mode and the loop body of the predefined mode end the
\* iteration in the same way on the flags of the batch and the response of
\* the human.
C23_LoopsAgree ==
    pc = "waited"
    => IterationOutcome("dynamic", result, waitReturned)
          = IterationOutcome("predefined", result, waitReturned)

\* C24 (as stated): in the iteration after one whose stream held a
\* prohibited tag, the messages given to the model contain the corrective
\* reminder queued at the detection.
C24_ReminderReachesModel ==
    (streamTurn = "next" /\ detectedBefore) => "reminder" \in messageHistory

\* C26 (as stated): a wait that has returned has no subscription left and
\* has returned the stored response's action, or timeout with the timeout
\* elapsed and nothing stored, or abort with the abort signal set or without
\* a request id; a poll that does not return starts the timer; and every
\* wait that is called returns.
C26_WaitReturns ==
    /\ [](pc = "waited"
          => /\ ~subscribed
             /\ \/ /\ waitReturned = "abort"
                   /\ aborted \/ humanInputRequestId = 0
                \/ /\ waitReturned = "timeout"
                   /\ elapsed > HUMAN_INPUT_TIMEOUT
                   /\ humanInputResponse = "none"
                   /\ ~aborted
                \/ /\ waitReturned \in {"done", "abort"}
                   /\ waitReturned = humanInputResponse
                   /\ ~aborted)
    /\ [][pc = "poll" => pc' \in {"sleep", "waited"}]_vars
    /\ (pc = "wait") ~> (pc = "waited" /\ ~subscribed)

\* C26 witness: a wait with a request id, no response and no cancellation
\* has returned by the timeout.
C26_Witness ==
    /\ pc = "waited"
    /\ waitReturned = "timeout"
    /\ humanInputRequestId # 0
    /\ ~subscribed

\* C28 (as stated): in every full rendering of the history, a record that
\* a compaction created (a record with a summary field, whatever its text)
\* is rendered as a summary block.
C28_SummaryRendersAsSummary ==
    (ctxPc = "returned" /\ historyContext.kind = "full")
    => \A k \in 1..Len(executionHistory) :
          executionHistory[k].summary # -1
          => historyContext.entries[k].kind = "summary"

\* C29 (as stated): every call of execute() on an agent, the first and
\* every later one, reaches the start of its loop with the iteration
\* counter 0, the no-tool-call counter 0 and the history empty.
C29_FreshLoopState ==
    [][ (pc \in {"idle", "ended"} /\ pc' = "loop")
        => /\ iterations' = 0
           /\ consecutiveNoToolCalls' = 0
           /\ executionHistory' = << >> ]_vars

\* C29 witness: a second call stands at the start of its loop on an agent
\* whose first call recorded a human-input request and did not complete.
C29_Witness ==
    /\ executions = 2
    /\ pc = "loop"
    /\ published = {"start"}
    /\ iterations = 0
    /\ humanInputRequestId # 0

\* C30 (as stated): in _getBrowserStateMessage the degradation is staged.
\* A full string within the token limit is used unchanged and no reduced
\* string is requested; the reduced string is requested, once, only when
\* the full string exceeds the limit, and is used unchanged when it is
\* within the limit; the string is cut and ends with the truncation
\* indicator exactly when the reduced string still exceeds the limit.
C30_StagedDegradation ==
    /\ hiddenRequests > 0 => fullTokens > browserStateTokensLimit
    /\ hiddenRequests <= 1
    /\ (bsPc \in {"message", "returned"} /\ includeBrowserState)
       => /\ fullTokens <= browserStateTokensLimit
             => /\ browserStateString = fullState
                /\ hiddenRequests = 0
          /\ (fullTokens > browserStateTokensLimit
              /\ reducedTokens <= browserStateTokensLimit)
             => browserStateString = reducedState
          /\ browserStateString.truncated
             <=> /\ hiddenRequests = 1
                 /\ reducedTokens > browserStateTokensLimit
          /\ browserStateString.truncated
             => /\ browserStateString.kind = "reduced"
                /\ browserStateString.length <= reducedState.length
    /\ bsPc = "returned"
       => stateMessage = BrowserStateMessage(includeBrowserState,
                                             browserStateString,
                                             stateMessage.image)

\* C30 witness: a call returned a message whose browser state is the
\* reduced string cut to a shorter, non-empty prefix and ended with the
\* truncation indicator.
C30_Witness ==
    /\ bsPc = "returned"
    /\ stateMessage.text = "browser-state"
    /\ stateMessage.state.truncated
    /\ stateMessage.state.length > 0
    /\ stateMessage.state.length < reducedState.length
    /\ fullTokens > browserStateTokensLimit
    /\ reducedTokens > browserStateTokensLimit

====
